---- MODULE Spec2Model ----
(***************************************************************************)
(* Model of the authentication wrappers of front/lib/api (session,         *)
(* workspace, public API and Auth0 token wrappers) and of the plan         *)
(* subscription / plan invitation operations of front/lib/plans.           *)
(*                                                                         *)
(* Three specifications share the variables:                               *)
(*   SpecAuth  one action per wrapper; every external call a wrapper makes *)
(*             (getSession, Authenticator.fromSession, ...) returns a      *)
(*             value chosen by the environment at the point of the call.   *)
(*   Spec      the subscription operations, each call run to completion.   *)
(*   SpecConc  pokeUpgradeOrInviteWorkspaceToPlan split at its awaits, two *)
(*             calls interleaving.                                         *)
(***************************************************************************)
EXTENDS Integers, Sequences, FiniteSets, Bags, TLC

VARIABLES
    out,            \* the last request a wrapper processed: inputs, calls made, outcome
    plans,          \* Plan table: the codes of the rows present
    subscriptions,  \* Subscription table: sequence of rows
    invitations,    \* PlanInvitation table: bag of rows (findAll has no order)
    last,           \* the last completed subscription operation: arguments and result
    lastCreated,    \* per workspace: plan of the last call that created an invitation
    pc,             \* per process: position inside pokeUpgradeOrInviteWorkspaceToPlan
    local           \* per process: the locals of the call in progress

authVars == <<out>>
dbVars == <<plans, subscriptions, invitations>>
callVars == <<last, lastCreated>>
procVars == <<pc, local>>
vars == <<out, plans, subscriptions, invitations, last, lastCreated, pc, local>>

NULL == "null"

(***************************************************************************)
(* Requests, options and the values returned by the external calls.        *)
(***************************************************************************)

\* req.query.wId / req.headers[...]: string | string[] | undefined
QueryValues ==
    { [type |-> "undefined", val |-> ""],
      [type |-> "string", val |-> ""],
      [type |-> "string", val |-> "w1"],
      [type |-> "array", val |-> "w1"] }

HeaderValues ==
    { [type |-> "undefined", val |-> ""],
      [type |-> "string", val |-> "user@dust.tt"],
      [type |-> "array", val |-> "user@dust.tt"] }

\* opts.allowUserOutsideCurrentWorkspace?: boolean
OptFlags == {"undefined", "false", "true"}

Truthy(flag) == flag = "true"

Sessions == {NULL, "session"}

\* What the wrappers read of an Authenticator.
AuthenticatorsOfKind(kind) ==
    [kind : {kind}, workspace : {NULL, "w1"}, plan : {NULL, "plan"},
     user : {NULL, "user"}, isUser : BOOLEAN, isBuilder : BOOLEAN]

\* the JavaScript null where an Authenticator is expected
NullAuth ==
    [kind |-> "null", workspace |-> NULL, plan |-> NULL, user |-> NULL,
     isUser |-> FALSE, isBuilder |-> FALSE]

\* Authenticator.fromSession(session, wId)
SessionAuthenticators ==
    { a \in AuthenticatorsOfKind("fromSession") : ~a.isBuilder }

\* Authenticator.fromAuth0Token({token, wId})
TokenAuthenticators ==
    { a \in AuthenticatorsOfKind("fromAuth0Token") :
        ~a.isBuilder /\ a.workspace = "w1" /\ a.plan = "plan" }

\* Authenticator.fromKey(key, wId, groupIds).workspaceAuth
WorkspaceKeyAuthenticators ==
    { a \in AuthenticatorsOfKind("workspaceAuth") : a.user = NULL /\ ~a.isUser }

\* Authenticator.fromKey(key, wId, groupIds).keyAuth
KeyAuthenticator ==
    [kind |-> "keyAuth", workspace |-> "w1", plan |-> "plan", user |-> NULL,
     isUser |-> FALSE, isBuilder |-> TRUE]

\* workspaceAuth.exchangeSystemKeyForUserAuthByEmail(...): Authenticator | null
ExchangeResults ==
    { NullAuth,
      [kind |-> "userAuth", workspace |-> "w1", plan |-> "plan", user |-> "user",
       isUser |-> TRUE, isBuilder |-> FALSE] }

\* getBearerToken(req): Err | Ok(token); getAuthType(token)
BearerTokens == {"err", "access_token", "api_key"}

\* verifyAuth0Token(token, scope): Err | Ok(decoded)
Decodeds == {"err", "ok"}

\* getAPIKey(req): Err(api error) | Ok(key)
KeyResults == {"err", "ok"}

\* getUserFromAuth0Token(decoded): user | null
Users == {NULL, "user"}

ApiError(status, type) == [status_code |-> status, type |-> type]

\* the error carried by a failed getAPIKey
KeyError == ApiError(401, "invalid_api_key_error")

\* No request processed yet.
IdleOut ==
    [wrapper |-> "none", wId |-> [type |-> "undefined", val |-> ""],
     header |-> [type |-> "undefined", val |-> ""], allow |-> "undefined",
     calls |-> {}, session |-> NULL, bearer |-> "err", decoded |-> "err",
     key |-> "err", auth |-> NullAuth, keyAuth |-> NullAuth,
     exchanged |-> NullAuth, user |-> NULL,
     handlerCalls |-> 0, responses |-> <<>>,
     argAuth |-> NullAuth, argKeyAuth |-> NullAuth, argSession |-> NULL,
     argUser |-> NULL]

\* apiError(req, res, error): sends the error response
Reply(o, status, type) ==
    [o EXCEPT !.responses = Append(@, ApiError(status, type))]

\* handler(req, res, ...)
Invoke(o, auth, keyAuth, session, user) ==
    [o EXCEPT !.handlerCalls = @ + 1, !.argAuth = auth, !.argKeyAuth = keyAuth,
              !.argSession = session, !.argUser = user]

Called(o, fn, field, value) ==
    [o EXCEPT !.calls = @ \cup {fn}, ![field] = value]

IsNonEmptyString(q) == q.type = "string" /\ q.val # ""

(***************************************************************************)
(* The guards of the wrappers.                                             *)
(***************************************************************************)

\* if (!session)
SessionMissing(session) == session = NULL

\* if (!owner || !plan)
WorkspaceNotFound(auth) == auth.workspace = NULL \/ auth.plan = NULL

\* Mutation: the option is read inverted.
NotWorkspaceUser_Inverted(auth, allow) == ~auth.isUser /\ Truthy(allow)

\* if (!auth.isUser() && !opts.allowUserOutsideCurrentWorkspace)
NotWorkspaceUser(auth, allow) == ~auth.isUser /\ ~Truthy(allow)

\* if (!workspaceAuth.isBuilder() && !allowUserOutsideCurrentWorkspace)
NotWorkspaceBuilder(auth, allow) == ~auth.isBuilder /\ ~Truthy(allow)

\* Mutation: the option is not consulted.
ShouldExchange_IgnoresOption(header, allow) == header.type = "string"

\* if (typeof userEmailFromHeader === "string" && !allowUserOutsideCurrentWorkspace)
ShouldExchange(header, allow) == header.type = "string" /\ ~Truthy(allow)

\* (await exchangeSystemKeyForUserAuthByEmail(...)) ?? workspaceAuth
Coalesce(exchanged, workspaceAuth) ==
    IF exchanged = NullAuth THEN workspaceAuth ELSE exchanged

\* Mutation: the key authenticator is always handed over.
KeyAuthArg_Always(keyAuth, allow) == keyAuth

\* opts.allowUserOutsideCurrentWorkspace ? keyAuth : null
KeyAuthArg(keyAuth, allow) == IF Truthy(allow) THEN keyAuth ELSE NullAuth

\* Mutation: the comparison is inverted.
NotAccessToken_Inverted(authMethod) == authMethod = "access_token"

\* if (authMethod !== "access_token")
NotAccessToken(authMethod) == authMethod # "access_token"

(***************************************************************************)
(* withSessionAuthentication: the handler runs only with a session.        *)
(***************************************************************************)
withSessionAuthentication ==
    /\ \E session \in Sessions :
         LET o1 == Called([IdleOut EXCEPT !.wrapper = "withSessionAuthentication"],
                          "getSession", "session", session)
         IN  IF SessionMissing(session)
             THEN out' = Reply(o1, 401, "not_authenticated")
             ELSE out' = Invoke(o1, NullAuth, NullAuth, session, NULL)
    /\ UNCHANGED <<dbVars, callVars, procVars>>

(***************************************************************************)
(* withSessionAuthenticationForWorkspace: withSessionAuthentication around *)
(* the workspace checks.                                                   *)
(***************************************************************************)
WorkspaceGate(o) ==
    IF ~IsNonEmptyString(o.wId)
    THEN out' = Reply(o, 404, "workspace_not_found")
    ELSE \E auth \in SessionAuthenticators :
           LET o1 == Called(o, "Authenticator.fromSession", "auth", auth)
           IN  IF WorkspaceNotFound(auth)
               THEN out' = Reply(o1, 404, "workspace_not_found")
               ELSE IF auth.user = NULL
               THEN out' = Reply(o1, 404, "workspace_user_not_found")
               ELSE IF NotWorkspaceUser(auth, o.allow)
               THEN out' = Reply(o1, 401, "workspace_auth_error")
               ELSE out' = Invoke(o1, auth, NullAuth, o.session, NULL)

withSessionAuthenticationForWorkspace ==
    /\ \E wId \in QueryValues, allow \in OptFlags, session \in Sessions :
         LET o1 == Called([IdleOut EXCEPT
                              !.wrapper = "withSessionAuthenticationForWorkspace",
                              !.wId = wId, !.allow = allow],
                          "getSession", "session", session)
         IN  IF SessionMissing(session)
             THEN out' = Reply(o1, 401, "not_authenticated")
             ELSE WorkspaceGate(o1)
    /\ UNCHANGED <<dbVars, callVars, procVars>>

(***************************************************************************)
(* withPublicAPIAuthentication                                             *)
(***************************************************************************)
\* Authentification with Auth0 token.
AccessTokenPath(o) ==
    \E decoded \in Decodeds :
      LET o1 == Called(o, "verifyAuth0Token", "decoded", decoded)
      IN  IF decoded = "err"
          THEN out' = Reply(o1, 401, "not_authenticated")
          ELSE \E auth \in TokenAuthenticators :
                 LET o2 == Called(o1, "Authenticator.fromAuth0Token", "auth", auth)
                 IN  IF auth.user = NULL
                     THEN out' = Reply(o2, 401, "not_authenticated")
                     ELSE IF ~auth.isUser
                     THEN out' = Reply(o2, 401, "workspace_auth_error")
                     ELSE out' = Invoke(o2, auth, NullAuth, NULL, NULL)

\* Authentification with an API key.
ApiKeyPath(o) ==
    \E key \in KeyResults :
      LET o1 == Called(o, "getAPIKey", "key", key)
      IN  IF key = "err"
          THEN out' = [o1 EXCEPT !.responses = Append(@, KeyError)]
          ELSE \E workspaceAuth \in WorkspaceKeyAuthenticators :
                 LET o2 == [Called(o1, "Authenticator.fromKey", "auth", workspaceAuth)
                               EXCEPT !.keyAuth = KeyAuthenticator]
                 IN  IF WorkspaceNotFound(workspaceAuth)
                     THEN out' = Reply(o2, 404, "workspace_not_found")
                     ELSE IF NotWorkspaceBuilder(workspaceAuth, o.allow)
                     THEN out' = Reply(o2, 401, "workspace_auth_error")
                     ELSE IF ShouldExchange(o.header, o.allow)
                     THEN \E exchanged \in ExchangeResults :
                            out' = Invoke(
                                Called(o2, "exchangeSystemKeyForUserAuthByEmail",
                                       "exchanged", exchanged),
                                Coalesce(exchanged, workspaceAuth),
                                KeyAuthArg(KeyAuthenticator, o.allow), NULL, NULL)
                     ELSE out' = Invoke(o2, workspaceAuth,
                                        KeyAuthArg(KeyAuthenticator, o.allow),
                                        NULL, NULL)

withPublicAPIAuthentication ==
    /\ \E wId \in QueryValues, allow \in OptFlags, header \in HeaderValues :
         LET o == [IdleOut EXCEPT !.wrapper = "withPublicAPIAuthentication",
                                  !.wId = wId, !.allow = allow, !.header = header]
         IN  IF ~IsNonEmptyString(wId)
             THEN out' = Reply(o, 404, "workspace_not_found")
             ELSE \E bearer \in BearerTokens :
                    LET o1 == Called(o, "getBearerToken", "bearer", bearer)
                    IN  IF bearer = "err"
                        THEN out' = Reply(o1, 401, "not_authenticated")
                        ELSE IF bearer = "access_token"
                        THEN AccessTokenPath(o1)
                        ELSE ApiKeyPath(o1)
    /\ UNCHANGED <<dbVars, callVars, procVars>>

(***************************************************************************)
(* withAuth0TokenAuthentication                                            *)
(***************************************************************************)
withAuth0TokenAuthentication ==
    /\ \E bearer \in BearerTokens :
         LET o1 == Called([IdleOut EXCEPT !.wrapper = "withAuth0TokenAuthentication"],
                          "getBearerToken", "bearer", bearer)
         IN  IF bearer = "err"
             THEN out' = Reply(o1, 401, "not_authenticated")
             ELSE IF NotAccessToken(bearer)
             THEN out' = Reply(o1, 401, "not_authenticated")
             ELSE \E decoded \in Decodeds :
                    LET o2 == Called(o1, "verifyAuth0Token", "decoded", decoded)
                    IN  IF decoded = "err"
                        THEN out' = Reply(o2, 401, "not_authenticated")
                        ELSE \E user \in Users :
                               LET o3 == Called(o2, "getUserFromAuth0Token",
                                                "user", user)
                               IN  IF user = NULL
                                   THEN out' = Reply(o3, 401, "not_authenticated")
                                   ELSE out' = Invoke(
                                       Called(o3, "getUserWithWorkspaces",
                                              "user", user),
                                       NullAuth, NullAuth, NULL, user)
    /\ UNCHANGED <<dbVars, callVars, procVars>>

NextAuth ==
    \/ withSessionAuthentication
    \/ withSessionAuthenticationForWorkspace
    \/ withPublicAPIAuthentication
    \/ withAuth0TokenAuthentication

(***************************************************************************)
(* Plans, subscriptions and plan invitations.                              *)
(***************************************************************************)

\* cap on the rows of the Subscription table (rows are never deleted)
MaxSubs == 2

\* Workspace table (rows are neither created nor deleted by these operations)
Workspaces == {"w1", "w2"}

\* workspaceId arguments: the workspaces and an sId of no workspace
WorkspaceSIds == Workspaces \cup {"w_none"}

FREE_NO_PLAN_CODE == "FREE_NO_PLAN"
FREE_UPGRADED_PLAN_CODE == "FREE_UPGRADED_PLAN"
PRO_PLAN_SEAT_29_CODE == "PRO_PLAN_SEAT_29"

\* The attributes of the Plan rows, by code.
PlanAttributes ==
    [ FREE_UPGRADED_PLAN |-> [billingType |-> "free", stripeProductId |-> NULL],
      PRO_PLAN_SEAT_29   |-> [billingType |-> "per_seat", stripeProductId |-> "prod_pro"],
      ENT_PLAN           |-> [billingType |-> "monthly_active_users",
                              stripeProductId |-> "prod_ent"],
      FREE_STRIPE_PLAN   |-> [billingType |-> "free", stripeProductId |-> "prod_free"],
      SEAT_PLAN_NO_PRODUCT |-> [billingType |-> "per_seat", stripeProductId |-> NULL] ]

AllPlanCodes == DOMAIN PlanAttributes

\* What the operations read of their Authenticator argument: auth.workspace(),
\* auth.isDustSuperUser() and auth.subscription()?.plan.code. An accessor that
\* is not reached (no workspace, not a super user) has the default value.
Authenticators ==
    { a \in [workspace : Workspaces \cup {NULL}, isDustSuperUser : BOOLEAN,
             subscription : {NULL, PRO_PLAN_SEAT_29_CODE, "ENT_PLAN"}] :
        (a.workspace = NULL \/ ~a.isDustSuperUser) => a.subscription = NULL }

\* getCheckoutUrlForUpgrade does not read auth.isDustSuperUser().
CheckoutAuthenticators ==
    { a \in [workspace : Workspaces \cup {NULL}, isDustSuperUser : {FALSE},
             subscription : {NULL, PRO_PLAN_SEAT_29_CODE, "ENT_PLAN"}] :
        a.workspace = NULL => a.subscription = NULL }

\* createCheckoutSession({auth, planCode}): string | null
CheckoutUrls == {NULL, "https://checkout"}

SubscriptionRow(w, code, customer) ==
    [workspaceId |-> w, planCode |-> code, status |-> "active",
     endDate |-> NULL, stripeCustomerId |-> customer]

InvitationRow(w, code) == [workspaceId |-> w, planCode |-> code, consumedAt |-> NULL]

\* Workspace.findOne({where: {sId}})
FindWorkspace(sId) == IF sId \in Workspaces THEN sId ELSE NULL

\* Plan.findOne({where: {code}})
FindPlan(code) == IF code \in plans THEN code ELSE NULL

\* Subscription.findOne({where: {workspaceId, status: "active"}}): the index of a
\* matching row, 0 when there is none.
FindActiveSubscription(subs, w) ==
    LET found == { i \in 1..Len(subs) :
                     subs[i].workspaceId = w /\ subs[i].status = "active" }
    IN  IF found = {} THEN {0} ELSE found

\* Mutation: the end date is not written.
EndSubscription_NoEndDate(subs, i) ==
    IF i = 0 THEN subs
    ELSE [subs EXCEPT ![i].status = "ended"]

\* activeSubscription.update({status: "ended", endDate: now})
EndSubscription(subs, i) ==
    IF i = 0 THEN subs
    ELSE [subs EXCEPT ![i].status = "ended", ![i].endDate = "now"]

\* renderSubscriptionFromModels({plan, activeSubscription}); the sId of a row is
\* its index, 0 is the null sId.
RenderSubscription(code, i) == [sId |-> i, planCode |-> code]

\* PlanInvitation.findAll({where: {workspaceId, consumedAt: null},
\*                         include: [{model: Plan, required: true}]})
PendingInvitations(invs, w) ==
    { r \in BagToSet(invs) :
        /\ r.workspaceId = w
        /\ r.consumedAt = NULL
        /\ r.planCode \in plans }

\* getPlanInvitation(auth): the plan code of planInvitations[0], NULL when there
\* is none. findAll has no order: any pending row may come first.
GetPlanInvitation(invs, w) ==
    IF PendingInvitations(invs, w) = {} THEN {NULL}
    ELSE { r.planCode : r \in PendingInvitations(invs, w) }

\* PlanInvitation.destroy({where: {workspaceId, consumedAt: null}})
DestroyPending(invs, w) ==
    LET kept == { r \in BagToSet(invs) :
                    ~(r.workspaceId = w /\ r.consumedAt = NULL) }
    IN  [r \in kept |-> invs[r]]

\* PlanInvitation.create({secret, workspaceId, planId})
CreateInvitation(invs, w, code) == invs (+) SetToBag({InvitationRow(w, code)})

\* plan.billingType === "free" && plan.stripeProductId === null
IsFreePlan(code) ==
    /\ PlanAttributes[code].billingType = "free"
    /\ PlanAttributes[code].stripeProductId = NULL

\* Mutation: the pending invitations are not destroyed.
InvitationTransaction_NoDestroy(invs, w, invitation, code) ==
    CreateInvitation(invs, w, code)

\* The transaction of pokeUpgradeOrInviteWorkspaceToPlan.
InvitationTransaction(invs, w, invitation, code) ==
    CreateInvitation(IF invitation # NULL THEN DestroyPending(invs, w) ELSE invs,
                     w, code)

\* Mutation: the active subscription is not ended.
SubscribeTransaction_KeepsActive(subs, w, code, i) ==
    Append(subs,
           SubscriptionRow(w, code, IF i = 0 THEN NULL ELSE subs[i].stripeCustomerId))

\* The transaction of internalSubscribeWorkspaceToFreeUpgradedPlan; i is the
\* active subscription found before it, 0 when there is none.
SubscribeTransaction(subs, w, code, i) ==
    Append(EndSubscription(subs, i),
           SubscriptionRow(w, code, IF i = 0 THEN NULL ELSE subs[i].stripeCustomerId))

NoCall ==
    [op |-> "none", workspaceId |-> NULL, planCode |-> NULL, subscribed |-> NULL,
     result |-> "none", error |-> "none", ended |-> 0,
     returned |-> RenderSubscription(NULL, 0), invitation |-> NULL,
     created |-> FALSE, url |-> NULL]

Throw(call, error) == [call EXCEPT !.result = "throw", !.error = error]

(***************************************************************************)
(* internalSubscribeWorkspaceToFreeNoPlan                                  *)
(***************************************************************************)
internalSubscribeWorkspaceToFreeNoPlan ==
    /\ \E workspaceId \in WorkspaceSIds :
         LET call == [NoCall EXCEPT
                         !.op = "internalSubscribeWorkspaceToFreeNoPlan",
                         !.workspaceId = workspaceId]
         IN  IF FindWorkspace(workspaceId) = NULL
             THEN /\ last' = Throw(call, "Cannot find workspace")
                  /\ UNCHANGED subscriptions
             ELSE \E i \in FindActiveSubscription(subscriptions, workspaceId) :
                    /\ subscriptions' = EndSubscription(subscriptions, i)
                    /\ last' = [call EXCEPT
                                   !.result = "ok", !.ended = i,
                                   !.returned = RenderSubscription(FREE_NO_PLAN_CODE, 0)]
    /\ UNCHANGED <<out, plans, invitations, lastCreated, procVars>>

(***************************************************************************)
(* internalSubscribeWorkspaceToFreeUpgradedPlan, as called by              *)
(* pokeUpgradeOrInviteWorkspaceToPlan (its return value is dropped).       *)
(***************************************************************************)
SubscribeToFreeUpgradedPlan(call, workspaceId, planCode) ==
    IF FindWorkspace(workspaceId) = NULL
    THEN /\ last' = Throw(call, "Cannot find workspace")
         /\ UNCHANGED subscriptions
    ELSE IF FindPlan(planCode) = NULL
    THEN /\ last' = Throw(call, "Cannot subscribe to plan: not found")
         /\ UNCHANGED subscriptions
    ELSE \E i \in FindActiveSubscription(subscriptions, workspaceId) :
           IF i # 0 /\ subscriptions[i].planCode = planCode
           THEN /\ last' = Throw(call, "Cannot subscribe to plan: already subscribed")
                /\ UNCHANGED subscriptions
           ELSE /\ Len(subscriptions) < MaxSubs
                /\ subscriptions' =
                       SubscribeTransaction(subscriptions, workspaceId, planCode, i)
                /\ last' = [call EXCEPT !.result = "ok", !.ended = i]

(***************************************************************************)
(* pokeUpgradeOrInviteWorkspaceToPlan                                      *)
(***************************************************************************)
\* The checks before the free-plan branch: the error thrown, "ok" when none is.
PokeChecks(auth, planCode) ==
    IF auth.workspace = NULL THEN "Cannot find workspace"
    ELSE IF ~auth.isDustSuperUser THEN "Cannot invite workspace: not allowed"
    ELSE IF FindPlan(planCode) = NULL THEN "Cannot invite workspace: plan not found"
    ELSE IF auth.subscription # NULL /\ auth.subscription = planCode
    THEN "Cannot subscribe to plan: already subscribed"
    ELSE "ok"

pokeUpgradeOrInviteWorkspaceToPlan ==
    /\ \E auth \in Authenticators, planCode \in AllPlanCodes :
         LET call == [NoCall EXCEPT
                         !.op = "pokeUpgradeOrInviteWorkspaceToPlan",
                         !.workspaceId = auth.workspace,
                         !.planCode = planCode]
             owner == auth.workspace
         IN  IF PokeChecks(auth, planCode) # "ok"
             THEN /\ last' = Throw(call, PokeChecks(auth, planCode))
                  /\ UNCHANGED <<subscriptions, invitations, lastCreated>>
             ELSE IF IsFreePlan(planCode)
             THEN /\ SubscribeToFreeUpgradedPlan(call, owner, planCode)
                  /\ UNCHANGED <<invitations, lastCreated>>
             ELSE \E invitation \in GetPlanInvitation(invitations, owner) :
                    IF invitation = planCode
                    THEN /\ last' = [call EXCEPT !.result = "ok",
                                                 !.invitation = invitation]
                         /\ UNCHANGED <<subscriptions, invitations, lastCreated>>
                    ELSE /\ invitations' = InvitationTransaction(
                                               invitations, owner, invitation, planCode)
                         /\ lastCreated' = [lastCreated EXCEPT ![owner] = planCode]
                         /\ last' = [call EXCEPT !.result = "ok",
                                                 !.invitation = planCode,
                                                 !.created = TRUE]
                         /\ UNCHANGED subscriptions
    /\ UNCHANGED <<out, plans, procVars>>

(***************************************************************************)
(* getCheckoutUrlForUpgrade                                                *)
(***************************************************************************)
\* Mutation: the invitation is not consulted.
UpgradePlanCode_AlwaysPro(planInvitation) == PRO_PLAN_SEAT_29_CODE

\* planInvitation?.planCode ?? PRO_PLAN_SEAT_29_CODE
UpgradePlanCode(planInvitation) ==
    IF planInvitation # NULL THEN planInvitation ELSE PRO_PLAN_SEAT_29_CODE

\* The checks on the selected plan: the error thrown, "ok" when none is.
UpgradeChecks(auth, planCode) ==
    IF FindPlan(planCode) = NULL THEN "Cannot subscribe to plan: not found"
    ELSE IF PlanAttributes[planCode].stripeProductId = NULL
    THEN "Cannot subscribe to plan: no Stripe Product ID"
    ELSE IF PlanAttributes[planCode].billingType = "free"
    THEN "Cannot subscribe to plan: billingType is free"
    ELSE IF auth.subscription # NULL /\ auth.subscription = planCode
    THEN "Cannot subscribe to pro plan: already subscribed"
    ELSE "ok"

getCheckoutUrlForUpgrade ==
    /\ \E auth \in CheckoutAuthenticators :
         LET call == [NoCall EXCEPT !.op = "getCheckoutUrlForUpgrade",
                                    !.workspaceId = auth.workspace,
                                    !.subscribed = auth.subscription]
         IN  IF auth.workspace = NULL
             THEN last' = Throw(call, "Unauthorized auth data")
             ELSE \E planInvitation \in GetPlanInvitation(invitations, auth.workspace) :
                    LET planCode == UpgradePlanCode(planInvitation)
                        c1 == [call EXCEPT !.planCode = planCode,
                                           !.invitation = planInvitation]
                    IN  IF UpgradeChecks(auth, planCode) # "ok"
                        THEN last' = Throw(c1, UpgradeChecks(auth, planCode))
                        ELSE \E checkoutUrl \in CheckoutUrls :
                               IF checkoutUrl = NULL
                               THEN last' = Throw(c1,
                                   "Cannot subscribe to plan: checkout URL is null")
                               ELSE last' = [c1 EXCEPT !.result = "ok",
                                                       !.url = checkoutUrl]
    /\ UNCHANGED <<out, dbVars, lastCreated, procVars>>

Next ==
    \/ internalSubscribeWorkspaceToFreeNoPlan
    \/ pokeUpgradeOrInviteWorkspaceToPlan
    \/ getCheckoutUrlForUpgrade

(***************************************************************************)
(* Initial states and specifications.                                      *)
(***************************************************************************)
Procs == {"p1", "p2"}

NoLocal ==
    [workspaceId |-> NULL, planCode |-> NULL, invitation |-> NULL, active |-> 0]

\* Initial databases: all plans and empty tables; or no pro plan, w1 subscribed
\* to the plan of an invitation it has consumed, and w2 invited. At most one
\* active subscription and at most one pending invitation per workspace.
InitialDatabases ==
    { [plans |-> AllPlanCodes, subscriptions |-> <<>>, invitations |-> EmptyBag],
      [plans |-> AllPlanCodes \ {PRO_PLAN_SEAT_29_CODE},
       subscriptions |-> <<SubscriptionRow("w1", "ENT_PLAN", "cus_1")>>,
       invitations |->
           SetToBag({[InvitationRow("w1", "ENT_PLAN") EXCEPT !.consumedAt = "then"],
                     InvitationRow("w2", "ENT_PLAN")})] }

Init ==
    /\ out = IdleOut
    /\ \E t \in InitialDatabases :
         /\ plans = t.plans
         /\ subscriptions = t.subscriptions
         /\ invitations = t.invitations
    /\ last = NoCall
    /\ lastCreated = [w \in Workspaces |-> NULL]
    /\ pc = [p \in Procs |-> "idle"]
    /\ local = [p \in Procs |-> NoLocal]

Spec == Init /\ [][Next]_vars

SpecAuth == Init /\ [][NextAuth]_vars

(***************************************************************************)
(* pokeUpgradeOrInviteWorkspaceToPlan split at its awaits: the reads       *)
(* (Subscription.findOne, getPlanInvitation) and the transactions are      *)
(* separate steps, and the calls of two processes interleave.              *)
(***************************************************************************)

\* The concurrent calls are made for one workspace.
ConcAuthenticators == { a \in Authenticators : a.workspace = "w1" }

\* processes between Subscription.findOne and the end of their transaction
Subscribing == { p \in Procs : pc[p] \in {"findActiveSubscription", "subscribe"} }

Finish(p) ==
    /\ pc' = [pc EXCEPT ![p] = "idle"]
    /\ local' = [local EXCEPT ![p] = NoLocal]

\* lines 278-311: the checks, then the branch on the kind of plan
pokeBegin(p) ==
    /\ pc[p] = "idle"
    /\ \E auth \in ConcAuthenticators, planCode \in AllPlanCodes :
         IF PokeChecks(auth, planCode) # "ok"
         THEN UNCHANGED procVars
         ELSE /\ IsFreePlan(planCode) =>
                   Len(subscriptions) + Cardinality(Subscribing) < MaxSubs
              /\ pc' = [pc EXCEPT ![p] =
                           IF IsFreePlan(planCode) THEN "findActiveSubscription"
                           ELSE "getPlanInvitation"]
              /\ local' = [local EXCEPT ![p] =
                              [NoLocal EXCEPT !.workspaceId = auth.workspace,
                                              !.planCode = planCode]]
    /\ UNCHANGED <<out, dbVars, callVars>>

\* internalSubscribeWorkspaceToFreeUpgradedPlan up to its transaction
pokeFindActiveSubscription(p) ==
    /\ pc[p] = "findActiveSubscription"
    /\ IF FindWorkspace(local[p].workspaceId) = NULL \/ FindPlan(local[p].planCode) = NULL
       THEN Finish(p)
       ELSE \E i \in FindActiveSubscription(subscriptions, local[p].workspaceId) :
              IF i # 0 /\ subscriptions[i].planCode = local[p].planCode
              THEN Finish(p)
              ELSE /\ pc' = [pc EXCEPT ![p] = "subscribe"]
                   /\ local' = [local EXCEPT ![p].active = i]
    /\ UNCHANGED <<out, dbVars, callVars>>

\* the transaction of internalSubscribeWorkspaceToFreeUpgradedPlan
pokeSubscribeTransaction(p) ==
    /\ pc[p] = "subscribe"
    /\ subscriptions' = SubscribeTransaction(subscriptions, local[p].workspaceId,
                                             local[p].planCode, local[p].active)
    /\ Finish(p)
    /\ UNCHANGED <<out, plans, invitations, callVars>>

\* lines 313-316
pokeGetPlanInvitation(p) ==
    /\ pc[p] = "getPlanInvitation"
    /\ \E invitation \in GetPlanInvitation(invitations, local[p].workspaceId) :
         IF invitation = local[p].planCode
         THEN Finish(p)
         ELSE /\ pc' = [pc EXCEPT ![p] = "transaction"]
              /\ local' = [local EXCEPT ![p].invitation = invitation]
    /\ UNCHANGED <<out, dbVars, callVars>>

\* lines 318-336
pokeInvitationTransaction(p) ==
    /\ pc[p] = "transaction"
    /\ invitations' = InvitationTransaction(invitations, local[p].workspaceId,
                                            local[p].invitation, local[p].planCode)
    /\ lastCreated' = [lastCreated EXCEPT ![local[p].workspaceId] = local[p].planCode]
    /\ Finish(p)
    /\ UNCHANGED <<out, plans, subscriptions, last>>

NextConc ==
    \E p \in Procs :
      \/ pokeBegin(p)
      \/ pokeFindActiveSubscription(p)
      \/ pokeSubscribeTransaction(p)
      \/ pokeGetPlanInvitation(p)
      \/ pokeInvitationTransaction(p)

SpecConc == Init /\ [][NextConc]_vars

(***************************************************************************)
(* Properties of the authentication wrappers (SpecAuth).                   *)
(***************************************************************************)

\* The error withSessionAuthenticationForWorkspace answers with, by the first
\* requirement the request o fails.
SessionWorkspaceError(o) ==
    IF o.session = NULL THEN ApiError(401, "not_authenticated")
    ELSE IF ~(o.wId.type = "string" /\ o.wId.val # "")
    THEN ApiError(404, "workspace_not_found")
    ELSE IF o.auth.workspace = NULL \/ o.auth.plan = NULL
    THEN ApiError(404, "workspace_not_found")
    ELSE IF o.auth.user = NULL THEN ApiError(404, "workspace_user_not_found")
    ELSE ApiError(401, "workspace_auth_error")

\* C1: withSessionAuthenticationForWorkspace invokes the handler (once, with the
\* authenticator and the session) exactly when a session exists, wId is a
\* non-empty string, the authenticator has a workspace, a plan and a user, and the
\* user is a member or allowUserOutsideCurrentWorkspace is set; otherwise the
\* handler is not invoked and exactly one error response is sent, the one of the
\* first failed requirement in the order 401 not_authenticated, 404
\* workspace_not_found, 404 workspace_user_not_found, 401 workspace_auth_error.
C1_SessionWorkspaceGate ==
    out.wrapper = "withSessionAuthenticationForWorkspace" =>
        LET authorized ==
                /\ out.session # NULL
                /\ out.wId.type = "string" /\ out.wId.val # ""
                /\ out.auth.workspace # NULL /\ out.auth.plan # NULL
                /\ out.auth.user # NULL
                /\ (out.auth.isUser \/ out.allow = "true")
        IN  IF authorized
            THEN /\ out.handlerCalls = 1
                 /\ out.responses = <<>>
                 /\ out.argAuth = out.auth
                 /\ out.argSession = out.session
            ELSE /\ out.handlerCalls = 0
                 /\ out.responses = <<SessionWorkspaceError(out)>>

\* A user outside the workspace reaches the handler because the option is set.
C1_Witness ==
    /\ out.wrapper = "withSessionAuthenticationForWorkspace"
    /\ out.handlerCalls = 1
    /\ ~out.auth.isUser
    /\ out.allow = "true"

\* C2: withPublicAPIAuthentication invokes the handler only for an authorized
\* request: with an access token, the token verified, a user was resolved and is a
\* member of the workspace; with an API key, the key is valid, the workspace and
\* its plan exist and the key is a builder of the workspace or
\* allowUserOutsideCurrentWorkspace is set. The keyAuth argument is the key's
\* Authenticator exactly on the API-key path with the option set, null otherwise.
C2_PublicAPIGate ==
    (out.wrapper = "withPublicAPIAuthentication" /\ out.handlerCalls > 0) =>
        /\ out.handlerCalls = 1
        /\ out.responses = <<>>
        /\ out.wId.type = "string" /\ out.wId.val # ""
        /\ \/ /\ out.bearer = "access_token"
              /\ out.decoded = "ok"
              /\ out.auth.kind = "fromAuth0Token"
              /\ out.auth.user # NULL
              /\ out.auth.isUser
           \/ /\ out.bearer = "api_key"
              /\ out.key = "ok"
              /\ out.auth.kind = "workspaceAuth"
              /\ out.auth.workspace # NULL /\ out.auth.plan # NULL
              /\ (out.auth.isBuilder \/ out.allow = "true")
        /\ (out.argKeyAuth # NullAuth) <=>
               (out.bearer = "api_key" /\ out.allow = "true")
        /\ (out.argKeyAuth # NullAuth) => out.argKeyAuth = out.keyAuth

\* A key that is not a builder of the workspace reaches the handler because the
\* option is set, and the handler receives the key's authenticator.
C2_Witness ==
    /\ out.wrapper = "withPublicAPIAuthentication"
    /\ out.handlerCalls = 1
    /\ out.bearer = "api_key"
    /\ ~out.auth.isBuilder
    /\ out.argKeyAuth = KeyAuthenticator

\* C3: in withPublicAPIAuthentication the exchange for a user authentication is
\* attempted only on the API-key path, with a string x-api-user-email header,
\* without allowUserOutsideCurrentWorkspace, and after the builder-role check has
\* passed; when it yields no authenticator the handler receives the original
\* workspace authenticator.
C3_ExchangeGate ==
    (/\ out.wrapper = "withPublicAPIAuthentication"
     /\ "exchangeSystemKeyForUserAuthByEmail" \in out.calls) =>
        /\ out.bearer = "api_key"
        /\ out.key = "ok"
        /\ out.header.type = "string"
        /\ out.allow # "true"
        /\ out.auth.workspace # NULL /\ out.auth.plan # NULL
        /\ out.auth.isBuilder
        /\ out.handlerCalls = 1
        /\ out.argAuth = (IF out.exchanged = NullAuth THEN out.auth ELSE out.exchanged)

\* The exchange was attempted and yielded nothing.
C3_Witness ==
    /\ out.wrapper = "withPublicAPIAuthentication"
    /\ "exchangeSystemKeyForUserAuthByEmail" \in out.calls
    /\ out.exchanged = NullAuth
    /\ out.argAuth.kind = "workspaceAuth"

\* C4: withAuth0TokenAuthentication invokes the handler exactly when a bearer
\* token is present, its auth type is access_token, it verifies and a registered
\* user is found; in every other case it answers 401 not_authenticated (once) and
\* does not invoke the handler.
C4_Auth0TokenGate ==
    out.wrapper = "withAuth0TokenAuthentication" =>
        LET authenticated ==
                /\ out.bearer = "access_token"
                /\ out.decoded = "ok"
                /\ out.user # NULL
        IN  IF authenticated
            THEN /\ out.handlerCalls = 1
                 /\ out.responses = <<>>
                 /\ out.argUser = out.user
            ELSE /\ out.handlerCalls = 0
                 /\ out.responses = <<ApiError(401, "not_authenticated")>>

\* An API-key style token is refused before any verification.
C4_Witness ==
    /\ out.wrapper = "withAuth0TokenAuthentication"
    /\ out.bearer = "api_key"
    /\ "verifyAuth0Token" \notin out.calls
    /\ out.responses = <<ApiError(401, "not_authenticated")>>
    /\ out.handlerCalls = 0

(***************************************************************************)
(* Properties of the subscription operations (Spec, SpecConc).             *)
(***************************************************************************)

\* The number of PlanInvitation rows of workspace w with consumedAt = null.
PendingCount(invs, w) ==
    LET pending == { r \in BagToSet(invs) :
                       r.workspaceId = w /\ r.consumedAt = NULL }
    IN  BagCardinality([r \in pending |-> invs[r]])

PendingPlans(invs, w) ==
    { r.planCode : r \in { x \in BagToSet(invs) :
                             x.workspaceId = w /\ x.consumedAt = NULL } }

ActiveSubscriptions(subs, w) ==
    { i \in 1..Len(subs) : subs[i].workspaceId = w /\ subs[i].status = "active" }

\* C5: with calls that do not overlap, every workspace has at most one pending
\* invitation, and once a call has created an invitation for the workspace the
\* pending invitation is for the plan of the most recent such call.
C5_OnePendingInvitation ==
    \A w \in Workspaces :
        /\ PendingCount(invitations, w) <= 1
        /\ lastCreated[w] # NULL =>
               /\ PendingCount(invitations, w) = 1
               /\ PendingPlans(invitations, w) = {lastCreated[w]}

\* The invitation w2 started with has been replaced by one for another plan.
C5_Witness ==
    /\ PRO_PLAN_SEAT_29_CODE \notin plans
    /\ last.op = "pokeUpgradeOrInviteWorkspaceToPlan"
    /\ last.created
    /\ last.workspaceId = "w2"
    /\ lastCreated["w2"] = "FREE_STRIPE_PLAN"

\* C6: no interleaving of two calls reaches a state with two pending invitations
\* for one workspace.
C6_OnePendingInvitationInterleaved ==
    \A w \in Workspaces : PendingCount(invitations, w) < 2

\* C7: internalSubscribeWorkspaceToFreeNoPlan, for an existing workspace,
\* succeeds, leaves the workspace without active subscription, turns the active
\* subscription it found into an ended one with an end date, changes no other row
\* and creates none, and returns a subscription with null sId and the
\* FREE_NO_PLAN plan; for a workspace that does not exist it throws and changes
\* nothing.
C7_FreeNoPlanEndsActive ==
    [][ last'.op = "internalSubscribeWorkspaceToFreeNoPlan" =>
          IF last'.workspaceId \in Workspaces
          THEN /\ last'.result = "ok"
               /\ ActiveSubscriptions(subscriptions', last'.workspaceId) = {}
               /\ Len(subscriptions') = Len(subscriptions)
               /\ \A i \in 1..Len(subscriptions) :
                    IF i \in ActiveSubscriptions(subscriptions, last'.workspaceId)
                    THEN /\ subscriptions'[i].status = "ended"
                         /\ subscriptions'[i].endDate # NULL
                         /\ subscriptions'[i].planCode = subscriptions[i].planCode
                         /\ subscriptions'[i].workspaceId = subscriptions[i].workspaceId
                    ELSE subscriptions'[i] = subscriptions[i]
               /\ last'.returned.sId = 0
               /\ last'.returned.planCode = "FREE_NO_PLAN"
               /\ UNCHANGED <<plans, invitations>>
          ELSE /\ last'.result = "throw"
               /\ UNCHANGED dbVars ]_vars

\* The call found an active subscription and ended it.
C7_Witness ==
    /\ last.op = "internalSubscribeWorkspaceToFreeNoPlan"
    /\ last.result = "ok"
    /\ last.ended # 0
    /\ subscriptions[last.ended].status = "ended"
    /\ subscriptions[last.ended].endDate # NULL
    /\ ActiveSubscriptions(subscriptions, last.workspaceId) = {}

\* C8: a call of pokeUpgradeOrInviteWorkspaceToPlan with a free plan (billingType
\* free, no Stripe product id) that does not throw returns no invitation, leaves
\* the PlanInvitation rows unchanged, and leaves the workspace with exactly one
\* active subscription, a new one to that plan.
C8_FreePlanSubscribesWithoutInvitation ==
    [][ (/\ last'.op = "pokeUpgradeOrInviteWorkspaceToPlan"
         /\ last'.result = "ok"
         /\ PlanAttributes[last'.planCode].billingType = "free"
         /\ PlanAttributes[last'.planCode].stripeProductId = NULL) =>
          /\ last'.invitation = NULL
          /\ ~last'.created
          /\ invitations' = invitations
          /\ Len(subscriptions') = Len(subscriptions) + 1
          /\ ActiveSubscriptions(subscriptions', last'.workspaceId) =
                 {Len(subscriptions')}
          /\ subscriptions'[Len(subscriptions')].planCode = last'.planCode ]_vars

\* A subscribed and invited workspace was moved to the free plan.
C8_Witness ==
    /\ last.op = "pokeUpgradeOrInviteWorkspaceToPlan"
    /\ last.result = "ok"
    /\ last.planCode = FREE_UPGRADED_PLAN_CODE
    /\ last.ended # 0
    /\ last.invitation = NULL
    /\ PendingCount(invitations, last.workspaceId) = 1
    /\ subscriptions[Len(subscriptions)].planCode = FREE_UPGRADED_PLAN_CODE
    /\ subscriptions[Len(subscriptions)].status = "active"

\* C9: getCheckoutUrlForUpgrade selects the plan of the workspace's pending
\* invitation if there is one and the pro plan otherwise; it throws when that
\* plan does not exist, has no Stripe product id, has billingType free, or is the
\* plan of the subscription of auth, or when the checkout URL is null; and in
\* every outcome subscriptions and plan invitations are unchanged.
C9_CheckoutSelectsPlanAndChangesNothing ==
    [][ last'.op = "getCheckoutUrlForUpgrade" =>
          /\ UNCHANGED dbVars
          /\ last'.workspaceId = NULL => last'.result = "throw"
          /\ last'.workspaceId # NULL =>
               /\ IF PendingPlans(invitations, last'.workspaceId) = {}
                  THEN last'.planCode = "PRO_PLAN_SEAT_29"
                  ELSE last'.planCode \in PendingPlans(invitations, last'.workspaceId)
               /\ last'.result = "ok" =>
                    /\ last'.planCode \in plans
                    /\ PlanAttributes[last'.planCode].stripeProductId # NULL
                    /\ PlanAttributes[last'.planCode].billingType # "free"
                    /\ last'.subscribed # last'.planCode
                    /\ last'.url # NULL
               /\ (\/ last'.planCode \notin plans
                   \/ PlanAttributes[last'.planCode].stripeProductId = NULL
                   \/ PlanAttributes[last'.planCode].billingType = "free"
                   \/ last'.subscribed = last'.planCode) => last'.result = "throw" ]_vars

\* The checkout was opened for the plan the workspace is invited to.
C9_Witness ==
    /\ last.op = "getCheckoutUrlForUpgrade"
    /\ last.result = "ok"
    /\ last.invitation = "ENT_PLAN"
    /\ last.planCode = "ENT_PLAN"
    /\ PendingPlans(invitations, last.workspaceId) = {"ENT_PLAN"}

====
